---- MODULE Spec2Model ----
(***************************************************************************)
(* Model of the stock dashboard (app.py, page_1.py, page_2.py).            *)
(*                                                                         *)
(* A render pass is one execution of a page's main(): the framework runs   *)
(* it again, from the top, on every interaction and on every page switch.  *)
(* The world (the ticker file, the provider's answer) does not change      *)
(* between passes; the widgets' values are the inputs of a pass.           *)
(*                                                                         *)
(* Numbers are floats in the code.  A value is modelled as an exact        *)
(* fraction n/d in lowest terms with d > 0, and the non-finite floats as   *)
(* d = 0: NaN is 0/0, +inf is 1/0, -inf is -1/0.                           *)
(***************************************************************************)
EXTENDS Integers, Sequences, FiniteSets, TLC

\* ------------------------------------------------------------------ bounds
\* Rows (trading days) of the daily table of the page passes.
NumDays == 3
\* Calendar months spanned by the data of the monthly specifications.
NumMonths == 3
\* Calendar days per month of the model's calendar.
DaysPerMonth == 2
\* Closing prices are 0..MaxPrice, or missing.
MaxPrice == 2
\* Longest ticker list handed to the fetcher in SpecFetch.
MaxTickers == 3

\* ------------------------------------------------------------------ floats
NaN == [n |-> 0, d |-> 0]
PosInf == [n |-> 1, d |-> 0]
NegInf == [n |-> -1, d |-> 0]
Num(k) == [n |-> k, d |-> 1]

isna(v) == v.n = 0 /\ v.d = 0
notna(v) == ~isna(v)

Abs(k) == IF k < 0 THEN -k ELSE k

RECURSIVE GCD(_, _)
GCD(a, b) == IF b = 0 THEN a ELSE GCD(b, a % b)

\* The fraction num/den (den # 0) in lowest terms, denominator positive.
Frac(num, den) ==
    LET g == GCD(Abs(num), Abs(den))
        s == IF den < 0 THEN -1 ELSE 1
    IN [n |-> (s * num) \div g, d |-> (s * den) \div g]

\* a / b on floats: x/0 is +-inf, 0/0 and anything with NaN is NaN.
truediv(a, b) ==
    IF isna(a) \/ isna(b) THEN NaN
    ELSE IF a.d = 0 /\ b.d = 0 THEN NaN
    ELSE IF a.d = 0 THEN (IF b.n < 0 THEN [n |-> -a.n, d |-> 0] ELSE a)
    ELSE IF b.d = 0 THEN Num(0)
    ELSE IF b.n = 0 THEN (IF a.n = 0 THEN NaN ELSE IF a.n > 0 THEN PosInf ELSE NegInf)
    ELSE Frac(a.n * b.d, a.d * b.n)

\* a - b on floats.
sub(a, b) ==
    IF isna(a) \/ isna(b) THEN NaN
    ELSE IF a.d = 0 /\ b.d = 0 THEN (IF a.n = b.n THEN NaN ELSE a)
    ELSE IF a.d = 0 THEN a
    ELSE IF b.d = 0 THEN [n |-> -b.n, d |-> 0]
    ELSE Frac(a.n * b.d - b.n * a.d, a.d * b.d)

\* Comparisons with zero; every comparison with NaN is false.
gt0(v) == v.n > 0
lt0(v) == v.n < 0
eq0(v) == v.n = 0 /\ v.d # 0

\* ------------------------------------------------------------------ calendar
\* Dates are day numbers; day d lies in month d \div DaysPerMonth.
Month(d) == d \div DaysPerMonth
MonthEnd(m) == (m + 1) * DaysPerMonth - 1

\* ------------------------------------------------------------------ tables
\* A DataFrame: the row labels (index), the dtype of the index, the column
\* labels in order, and for each column its values, aligned with the index.
DataFrame(idx, dtype, cols, dat) ==
    [index |-> idx, index_dtype |-> dtype, columns |-> cols, data |-> dat]

Range(s) == {s[i] : i \in DOMAIN s}

\* pd.DataFrame(): no rows, no columns.
EmptyDataFrame == DataFrame(<<>>, "object", <<>>, [c \in {} |-> <<>>])

\* DataFrame.empty: some axis has length 0.
empty(df) == Len(df.index) = 0 \/ Len(df.columns) = 0

\* Index.min() and Index.max() of a non-empty sorted index.
index_min(df) == df.index[1]
index_max(df) == df.index[Len(df.index)]

\* df[lista]: the listed columns, in the order of the list.
getitem(df, lista) ==
    DataFrame(df.index, df.index_dtype, lista, [c \in Range(lista) |-> df.data[c]])

\* df.rename(columns={old: new}): a new table; a label that is absent is ignored.
rename(df, old, new) ==
    LET lab(c) == IF c = old THEN new ELSE c
        cols == [i \in DOMAIN df.columns |-> lab(df.columns[i])]
        src(c) == IF c = new /\ old \in Range(df.columns) THEN old ELSE c
    IN DataFrame(df.index, df.index_dtype, cols,
                 [c \in Range(cols) |-> df.data[src(c)]])

\* A set of row positions as an increasing sequence.
Ascending(S) ==
    [k \in 1..Cardinality(S) |-> CHOOSE i \in S : Cardinality({j \in S : j < i}) = k - 1]

\* The rows of df at the given positions.
take(df, pos) ==
    DataFrame([k \in DOMAIN pos |-> df.index[pos[k]]], df.index_dtype, df.columns,
              [c \in Range(df.columns) |-> [k \in DOMAIN pos |-> df.data[c][pos[k]]]])

\* A slice that leaves out the row labelled hi, as positional slicing does.
loc_exclusivo(df, lo, hi) ==
    LET keep(i) == lo <= df.index[i] /\ df.index[i] < hi
    IN take(df, Ascending({i \in DOMAIN df.index : keep(i)}))

\* df.loc[lo:hi]: label slicing is inclusive at both ends.
loc(df, lo, hi) ==
    LET keep(i) == lo <= df.index[i] /\ df.index[i] <= hi
    IN take(df, Ascending({i \in DOMAIN df.index : keep(i)}))

\* Series.dropna().
dropna(s) == SelectSeq(s, notna)

\* df.dropna(how='all'): drops the rows that are missing in every column.
dropna_all(df) ==
    LET keep(i) == \E c \in Range(df.columns) : notna(df.data[c][i])
    IN take(df, Ascending({i \in DOMAIN df.index : keep(i)}))

\* df.where(mask): a cell whose mask is false becomes NaN.
where(df, mask) ==
    DataFrame(df.index, df.index_dtype, df.columns,
              [c \in Range(df.columns) |->
                  [i \in DOMAIN df.index |->
                      IF mask[c][i] THEN df.data[c][i] ELSE NaN]])

\* ------------------------------------------------------------------ page_1.py
\* The codes listed in the "Codigo" column of IBOV.csv.
Codigos == <<"PETR4", "VALE3">>

\* Messages shown to the user.
ErroArquivo == "Erro: O arquivo 'IBOV.csv' nao foi encontrado."
InfoArquivo == "Por favor, certifique-se de que o arquivo esta na mesma pasta."
InfoSelecione == "Por favor, selecione ao menos uma acao na barra lateral."
AvisoSemDados == "Nao foram encontrados dados para os tickers e periodo selecionados."
ErroCarregar == "Nao foi possivel carregar os dados das acoes"
ErroDatas == "A data inicial nao pode ser posterior a data final"
AvisoNenhumDado == "Nenhum dado encontrado para os filtros selecionados"

\* carregar_tickers_acoes(): each code with ".SA" appended, in file order; a
\* missing file is reported and gives the empty list.
carregar_tickers_acoes(existe) ==
    IF existe
    THEN [ret |-> [i \in DOMAIN Codigos |-> Codigos[i] \o ".SA"], msgs |-> {}]
    ELSE [ret |-> <<>>, msgs |-> {ErroArquivo, InfoArquivo}]

\* fechamento[ticker] = serie: a new label is appended as the last column, an
\* existing label has its values replaced; the first column of an empty
\* table brings its index.
setitem(df, ticker, bruto) ==
    DataFrame(IF Len(df.columns) = 0 THEN bruto.index ELSE df.index,
              IF Len(df.columns) = 0 THEN bruto.index_dtype ELSE df.index_dtype,
              IF ticker \in Range(df.columns) THEN df.columns
                                              ELSE Append(df.columns, ticker),
              [c \in Range(df.columns) \cup {ticker} |->
                  IF c = ticker THEN bruto.data[ticker] ELSE df.data[c]])

\* The loop without the test of line 59: a ticker the provider did not
\* return becomes a column of missing values.
RECURSIVE extrair_sem_teste(_, _, _, _)
extrair_sem_teste(fechamento, empresas, i, bruto) ==
    IF i > Len(empresas) THEN fechamento
    ELSE extrair_sem_teste(
             IF empresas[i] \in Range(bruto.columns)
             THEN setitem(fechamento, empresas[i], bruto)
             ELSE DataFrame(bruto.index, bruto.index_dtype,
                            IF empresas[i] \in Range(fechamento.columns)
                            THEN fechamento.columns
                            ELSE Append(fechamento.columns, empresas[i]),
                            [c \in Range(fechamento.columns) \cup {empresas[i]} |->
                                IF c = empresas[i] THEN [k \in DOMAIN bruto.index |-> NaN]
                                ELSE fechamento.data[c]]),
             empresas, i + 1, bruto)

\* The loop of carregar_dados over the tickers from position i on.
RECURSIVE extrair(_, _, _, _)
extrair(fechamento, empresas, i, bruto) ==
    IF i > Len(empresas) THEN fechamento
    ELSE extrair(IF empresas[i] \in Range(bruto.columns)
                    THEN setitem(fechamento, empresas[i], bruto)
                    ELSE fechamento,
                 empresas, i + 1, bruto)

\* carregar_dados(empresas): bruto is what yf.download returned, its columns
\* the tickers of the first level of the provider's column index.
carregar_dados(empresas, bruto) == extrair(EmptyDataFrame, empresas, 1, bruto)

\* configurar_sidebar(dados) with the multiselect's value lista and the
\* slider's value (lo, hi).  raised: index.min() of an empty index is NaN,
\* which has no to_pydatetime.  dados is the argument as the call leaves it.
configurar_sidebar(dados, lista, lo, hi) ==
    LET unica == IF Len(lista) = 1 THEN lista[1] ELSE "None"
        dados_sel == IF Len(lista) = 0 THEN dados
                     ELSE IF Len(lista) = 1
                          THEN rename(getitem(dados, lista), lista[1], "Close")
                          ELSE getitem(dados, lista)
    IN IF Len(dados_sel.index) = 0
       THEN [raised |-> TRUE, dados |-> dados, ret |-> EmptyDataFrame,
             lista_acoes |-> lista, acao_unica |-> unica]
       ELSE [raised |-> FALSE, dados |-> dados, ret |-> loc(dados_sel, lo, hi),
             lista_acoes |-> lista, acao_unica |-> unica]

\* One line of the performance text.
Linha(acao, status, cor, pct) == [acao |-> acao, status |-> status, cor |-> cor, pct |-> pct]
NenhumaAcao == <<Linha("", "nenhuma-acao", "", 0)>>

\* The integer nearest to num/den (den > 0), ties to the even one.
RoundHalfEven(num, den) ==
    LET q == num \div den
        r == num % den
    IN IF 2 * r < den THEN q
       ELSE IF 2 * r > den THEN q + 1
       ELSE IF q % 2 = 0 THEN q ELSE q + 1

\* f"{performance:.2%}": the percentage with two decimals, held as the number
\* of hundredths of a percent.
FormatPct(v) == RoundHalfEven(v.n * 10000, v.d)

\* The loop's body asking for one observation where line 142 asks for two.
linha_performance_uma(dados, acao) ==
    LET serie_acao_sem_nan == dropna(dados.data[acao])
    IN IF Len(serie_acao_sem_nan) > 0
       THEN LET valor_inicial == serie_acao_sem_nan[1]
                valor_final == serie_acao_sem_nan[Len(serie_acao_sem_nan)]
                performance == sub(truediv(valor_final, valor_inicial), Num(1))
            IN IF ~eq0(valor_inicial)
               THEN Linha(acao, "computed",
                          IF gt0(performance) THEN "green"
                          ELSE IF lt0(performance) THEN "red" ELSE "gray",
                          FormatPct(performance))
               ELSE Linha(acao, "zero-baseline", "", 0)
       ELSE Linha(acao, "insufficient-data", "", 0)

\* The body of the loop of calcular_performance for one symbol.
linha_performance(dados, acao) ==
    LET serie_acao_sem_nan == dropna(dados.data[acao])
    IN IF Len(serie_acao_sem_nan) > 1
       THEN LET valor_inicial == serie_acao_sem_nan[1]
                valor_final == serie_acao_sem_nan[Len(serie_acao_sem_nan)]
                performance == sub(truediv(valor_final, valor_inicial), Num(1))
            IN IF ~eq0(valor_inicial)
               THEN Linha(acao, "computed",
                          IF gt0(performance) THEN "green"
                          ELSE IF lt0(performance) THEN "red" ELSE "gray",
                          FormatPct(performance))
               ELSE Linha(acao, "zero-baseline", "", 0)
       ELSE Linha(acao, "insufficient-data", "", 0)

\* calcular_performance without the renaming of lines 128-130.
calcular_performance_sem_renomear(dados, lista, unica) ==
    IF Len(lista) = 0
    THEN [raised |-> FALSE, dados |-> dados, ret |-> NenhumaAcao]
    ELSE IF \E i \in DOMAIN lista : lista[i] \notin Range(dados.columns)
    THEN [raised |-> TRUE, dados |-> dados, ret |-> <<>>]
    ELSE [raised |-> FALSE, dados |-> dados,
          ret |-> [i \in DOMAIN lista |-> linha_performance(dados, lista[i])]]

\* calcular_performance(dados, lista_acoes, acao_unica).  raised: dados[acao]
\* of a label that is no column is a KeyError.
calcular_performance(dados, lista, unica) ==
    LET renomeado == IF Len(lista) = 1 THEN rename(dados, "Close", unica) ELSE dados
    IN IF Len(lista) = 0
       THEN [raised |-> FALSE, dados |-> dados, ret |-> NenhumaAcao]
       ELSE IF \E i \in DOMAIN lista : lista[i] \notin Range(renomeado.columns)
       THEN [raised |-> TRUE, dados |-> dados, ret |-> <<>>]
       ELSE [raised |-> FALSE, dados |-> dados,
             ret |-> [i \in DOMAIN lista |-> linha_performance(renomeado, lista[i])]]

\* plotar_grafico(dados): the warning it shows, if any.
plotar_grafico(dados) == IF empty(dados) THEN {AvisoSemDados} ELSE {}

\* ------------------------------------------------------------------ page_2.py
\* pd.to_datetime(index): the labels as timestamps; labels that already are
\* timestamps come back as they are.
to_datetime(dtype) == "datetime64[ns]"

\* The last value of a series that is not missing, NaN when there is none.
last_valid(s) == IF Len(dropna(s)) = 0 THEN NaN ELSE dropna(s)[Len(dropna(s))]

\* df.resample('ME').last(): one row per calendar month from the month of the
\* first label to the month of the last one, labelled with the month's end;
\* a cell is the month's last value that is not missing.
resample_last(df) ==
    LET m0 == Month(index_min(df))
        n == Month(index_max(df)) - m0 + 1
        rows(m) == Ascending({i \in DOMAIN df.index : Month(df.index[i]) = m})
        cell(c, m) == last_valid([k \in DOMAIN rows(m) |-> df.data[c][rows(m)[k]]])
    IN DataFrame([k \in 1..n |-> MonthEnd(m0 + k - 1)], df.index_dtype, df.columns,
                 [c \in Range(df.columns) |-> [k \in 1..n |-> cell(c, m0 + k - 1)]])

\* The change of each row against the first row instead of the row before.
pct_change_base(df) ==
    DataFrame(df.index, df.index_dtype, df.columns,
              [c \in Range(df.columns) |->
                  [k \in DOMAIN df.index |->
                      IF k = 1 THEN NaN
                      ELSE sub(truediv(df.data[c][k], df.data[c][1]), Num(1))]])

\* df.pct_change(fill_method=None): each row divided by the row before it,
\* minus one; the first row has no row before it.
pct_change(df) ==
    DataFrame(df.index, df.index_dtype, df.columns,
              [c \in Range(df.columns) |->
                  [k \in DOMAIN df.index |->
                      IF k = 1 THEN NaN
                      ELSE sub(truediv(df.data[c][k], df.data[c][k - 1]), Num(1))]])

\* calcular_variacao_mensal resampling the table it was given in place.
calcular_variacao_mensal_no_lugar(dados) ==
    LET convertido == [dados EXCEPT !.index_dtype = to_datetime(dados.index_dtype)]
    IN [dados |-> resample_last(convertido), ret |-> pct_change(resample_last(convertido))]

\* calcular_variacao_mensal(dados): assigns the converted index to the table
\* it was given, then resamples and differences into new tables.
calcular_variacao_mensal(dados) ==
    LET convertido == [dados EXCEPT !.index_dtype = to_datetime(dados.index_dtype)]
    IN [dados |-> convertido, ret |-> pct_change(resample_last(convertido))]

\* The checkboxes of the popover, in the order the code appends them.
filtros_da_caixa(alta, baixa, estavel) ==
    (IF alta THEN <<"Alta">> ELSE <<>>) \o (IF baixa THEN <<"Baixa">> ELSE <<>>)
        \o (IF estavel THEN <<"Estavel">> ELSE <<>>)

\* The mask with "Alta" read as >= 0.
mascara_alta_ge(df, filtros, c, i) ==
    \/ "Alta" \in Range(filtros) /\ (gt0(df.data[c][i]) \/ eq0(df.data[c][i]))
    \/ "Baixa" \in Range(filtros) /\ lt0(df.data[c][i])
    \/ "Estavel" \in Range(filtros) /\ eq0(df.data[c][i])

\* The mask built from the active direction filters.
mascara(df, filtros, c, i) ==
    \/ "Alta" \in Range(filtros) /\ gt0(df.data[c][i])
    \/ "Baixa" \in Range(filtros) /\ lt0(df.data[c][i])
    \/ "Estavel" \in Range(filtros) /\ eq0(df.data[c][i])

\* configurar_filtros dropping the all-missing rows only after masking.
configurar_filtros_dropna_no_if(dados_variacao, selecionadas, inicial, final, filtros) ==
    LET acoes == IF Len(selecionadas) = 0 THEN dados_variacao.columns ELSE selecionadas
        por_data == loc(getitem(dados_variacao, acoes), inicial, final)
        m == [c \in Range(por_data.columns) |->
                 [i \in DOMAIN por_data.index |-> mascara(por_data, filtros, c, i)]]
    IN IF inicial > final
       THEN [dados |-> dados_variacao, ret |-> EmptyDataFrame, msgs |-> {ErroDatas}]
       ELSE [dados |-> dados_variacao,
             ret |-> IF Len(filtros) # 0 THEN dropna_all(where(por_data, m)) ELSE por_data,
             msgs |-> {}]

\* configurar_filtros without the test of line 85.
configurar_filtros_sem_teste(dados_variacao, selecionadas, inicial, final, filtros) ==
    LET acoes == IF Len(selecionadas) = 0 THEN dados_variacao.columns ELSE selecionadas
        por_data == loc(getitem(dados_variacao, acoes), inicial, final)
        m == [c \in Range(por_data.columns) |->
                 [i \in DOMAIN por_data.index |-> mascara(por_data, filtros, c, i)]]
        por_variacao == IF Len(filtros) # 0 THEN where(por_data, m) ELSE por_data
    IN [dados |-> dados_variacao, ret |-> dropna_all(por_variacao), msgs |-> {}]

\* configurar_filtros(dados_variacao) with the widgets' values: the
\* multiselect, the two date inputs and the list of ticked direction filters.
configurar_filtros(dados_variacao, selecionadas, inicial, final, filtros) ==
    LET acoes == IF Len(selecionadas) = 0 THEN dados_variacao.columns ELSE selecionadas
        por_acao == getitem(dados_variacao, acoes)
        por_data == loc(por_acao, inicial, final)
        m == [c \in Range(por_data.columns) |->
                 [i \in DOMAIN por_data.index |-> mascara(por_data, filtros, c, i)]]
        por_variacao == IF Len(filtros) # 0 THEN where(por_data, m) ELSE por_data
    IN IF inicial > final
       THEN [dados |-> dados_variacao, ret |-> EmptyDataFrame, msgs |-> {ErroDatas}]
       ELSE [dados |-> dados_variacao, ret |-> dropna_all(por_variacao), msgs |-> {}]

\* exibir_dashboard(dados_filtrados): the warning it shows, if any; otherwise
\* the bar chart and the table are drawn.
exibir_dashboard(df) == IF empty(df) THEN {AvisoNenhumDado} ELSE {}

\* ------------------------------------------------------------------ main()
\* What a render pass leaves behind: how it ended (pc), the functions it
\* executed (called), the messages it showed, and the values of main's
\* variables (a variable the pass never assigned keeps its default).
Passo ==
    [pc |-> "done", called |-> {}, mensagens |-> {},
     dados_completos |-> EmptyDataFrame,
     lista_acoes |-> <<>>, acao_unica |-> "None", intervalo_data |-> <<0, 0>>,
     dados_filtrados |-> EmptyDataFrame, texto_performance |-> <<>>,
     variacao_mensal |-> EmptyDataFrame, dados_finais_filtrados |-> EmptyDataFrame,
     exibido |-> FALSE]

\* page_1.main(): falha is whether yf.download raises when it is handed an
\* empty ticker list (the code calls it there; what it does is the library's).
main_page_1(existe, bruto, lista, lo, hi, falha) ==
    LET t == carregar_tickers_acoes(existe)
        dc == carregar_dados(t.ret, bruto)
        sb == configurar_sidebar(dc, lista, lo, hi)
        perf == calcular_performance(sb.ret, sb.lista_acoes, sb.acao_unica)
        p0 == [Passo EXCEPT !.mensagens = t.msgs,
                            !.called = {"carregar_tickers_acoes", "carregar_dados"}]
        p1 == [p0 EXCEPT !.dados_completos = sb.dados,
                         !.called = @ \cup {"configurar_sidebar"}]
        p2 == [p1 EXCEPT !.lista_acoes = sb.lista_acoes, !.acao_unica = sb.acao_unica,
                         !.intervalo_data = <<lo, hi>>, !.dados_filtrados = sb.ret]
    IN IF Len(t.ret) = 0 /\ falha THEN [p0 EXCEPT !.pc = "crashed"]
       ELSE IF sb.raised THEN [p1 EXCEPT !.pc = "crashed"]
       ELSE IF Len(sb.lista_acoes) = 0
       THEN [p2 EXCEPT !.mensagens = @ \cup {InfoSelecione}]
       ELSE LET p3 == [p2 EXCEPT !.mensagens = @ \cup plotar_grafico(sb.ret),
                                 !.called = @ \cup {"plotar_grafico", "calcular_performance"},
                                 !.dados_filtrados = perf.dados]
            IN IF perf.raised THEN [p3 EXCEPT !.pc = "crashed"]
               ELSE [p3 EXCEPT !.texto_performance = perf.ret]

\* Steps 3 and 4 of page_2.main(), lines 151-155, on the pass so far.
filtrar_e_exibir(p, variacao, selecionadas, inicial, final, filtros) ==
    LET cf == configurar_filtros(variacao, selecionadas, inicial, final, filtros)
        p3 == [p EXCEPT !.called = @ \cup {"configurar_filtros"},
                        !.variacao_mensal = cf.dados,
                        !.dados_finais_filtrados = cf.ret,
                        !.mensagens = @ \cup cf.msgs]
    IN IF ~empty(cf.ret)
       THEN [p3 EXCEPT !.called = @ \cup {"exibir_dashboard"},
                       !.mensagens = @ \cup exibir_dashboard(cf.ret),
                       !.exibido = TRUE]
       ELSE p3

\* page_2.main().
main_page_2(existe, bruto, selecionadas, inicial, final, filtros) ==
    LET t == carregar_tickers_acoes(existe)
        dd == carregar_dados(t.ret, bruto)
        vm == calcular_variacao_mensal(dd)
        p0 == [Passo EXCEPT !.mensagens = t.msgs, !.called = {"carregar_tickers_acoes"}]
        p1 == [p0 EXCEPT !.called = @ \cup {"carregar_dados"}, !.dados_completos = dd]
        p2 == [p1 EXCEPT !.called = @ \cup {"calcular_variacao_mensal"},
                         !.dados_completos = vm.dados]
    IN IF Len(t.ret) = 0 THEN p0
       ELSE IF empty(dd) THEN [p1 EXCEPT !.mensagens = @ \cup {ErroCarregar}]
       ELSE filtrar_e_exibir(p2, vm.ret, selecionadas, inicial, final, filtros)

\* ------------------------------------------------------------------ state
VARIABLES
    arquivo,                \* IBOV.csv exists
    dados_brutos,           \* what the provider returns for the ticker list
    empresas,               \* the ticker list handed to carregar_dados
    page,                   \* the page whose main() ran last (0: none yet)
    pc,                     \* "idle", "done" or "crashed"
    called,                 \* the functions the pass executed
    mensagens,              \* the messages the pass showed
    dados_completos,        \* the fetcher's table as the pass leaves it
    lista_acoes,            \* page 1: the multiselect's value
    acao_unica,             \* page 1: the single symbol, or "None"
    intervalo_data,         \* page 1: the slider's value
    dados_filtrados,        \* page 1: the table configurar_sidebar returned
    texto_performance,      \* page 1: the lines of the performance text
    variacao_mensal,        \* page 2: the monthly variation table
    acoes_selecionadas,     \* page 2: the multiselect's value
    data_inicial,           \* page 2: the first date input
    data_final,             \* page 2: the second date input
    filtros_variacao,       \* page 2: the ticked direction filters
    dados_finais_filtrados, \* page 2: the table configurar_filtros returned
    exibido                 \* page 2: exibir_dashboard was called

mundo == <<arquivo, dados_brutos, empresas>>
entradas == <<acoes_selecionadas, data_inicial, data_final, filtros_variacao>>
saidas == <<pc, called, mensagens, dados_completos, lista_acoes, acao_unica,
            intervalo_data, dados_filtrados, texto_performance, variacao_mensal,
            dados_finais_filtrados, exibido>>
vars == <<mundo, page, entradas, saidas>>

\* The variables of a pass take the values of the record p.
Assign(p) ==
    /\ pc' = p.pc
    /\ called' = p.called
    /\ mensagens' = p.mensagens
    /\ dados_completos' = p.dados_completos
    /\ lista_acoes' = p.lista_acoes
    /\ acao_unica' = p.acao_unica
    /\ intervalo_data' = p.intervalo_data
    /\ dados_filtrados' = p.dados_filtrados
    /\ texto_performance' = p.texto_performance
    /\ variacao_mensal' = p.variacao_mensal
    /\ dados_finais_filtrados' = p.dados_finais_filtrados
    /\ exibido' = p.exibido

\* No pass has run: every variable of a pass has its default.
Idle ==
    /\ page = 0
    /\ pc = "idle" /\ called = {} /\ mensagens = {}
    /\ lista_acoes = <<>> /\ acao_unica = "None" /\ intervalo_data = <<0, 0>>
    /\ dados_filtrados = EmptyDataFrame /\ texto_performance = <<>>
    /\ dados_finais_filtrados = EmptyDataFrame
    /\ exibido = FALSE
    /\ acoes_selecionadas = <<>> /\ data_inicial = 0 /\ data_final = 0
    /\ filtros_variacao = <<>>

\* ------------------------------------------------------------------ inputs
Tickers == carregar_tickers_acoes(TRUE).ret

\* Closing prices: missing, or 0..MaxPrice.
Precos == {NaN} \cup {Num(k) : k \in 0..MaxPrice}

\* The sequences over S without repetition: the values of a multiselect.
Selecoes(S) ==
    UNION {{q \in [1..k -> S] : \A i, j \in 1..k : q[i] = q[j] => i = j} :
           k \in 0..Cardinality(S)}

\* The provider's answers over the trading days idx with values in vals: it
\* returns any subset of the tickers, each with one value or a gap per day.
Respostas(idx, vals) ==
    UNION {{DataFrame(IF R = {} THEN <<>> ELSE idx, "datetime64[ns]",
                      SelectSeq(Tickers, LAMBDA t : t \in R), dat) :
            dat \in [R -> [DOMAIN idx -> vals]]} :
           R \in SUBSET Range(Tickers)}

\* The symbols of R in some fixed order: the order of the provider's columns,
\* which the code never reads.
RECURSIVE Enumerar(_)
Enumerar(R) ==
    IF R = {} THEN <<>>
    ELSE LET t == CHOOSE u \in R : TRUE IN <<t>> \o Enumerar(R \ {t})

\* NumDays consecutive trading days, from day 0.
DiasSeguidos == [i \in 1..NumDays |-> i - 1]

\* ------------------------------------------------------------------ actions
\* A pass of page 1.  The multiselect offers the table's columns and gives
\* them back in the order they were picked; the slider gives lo <= hi between
\* the first and the last date.  The widgets of a pass that stops before them
\* keep their defaults.
Page1 ==
    LET dc == carregar_dados(carregar_tickers_acoes(arquivo).ret, dados_brutos)
        datas == IF Len(dc.index) = 0 THEN {0} ELSE index_min(dc)..index_max(dc)
    IN /\ pc = "idle"
       /\ \E lista \in Selecoes(Range(dc.columns)), lo \in datas,
             falha \in IF arquivo THEN {FALSE} ELSE BOOLEAN :
             \E hi \in {h \in datas : lo <= h} :
                /\ page' = 1
                /\ Assign(main_page_1(arquivo, dados_brutos, lista, lo, hi, falha))
                /\ UNCHANGED <<mundo, entradas>>

\* A pass of page 2.  Each date input gives a date between the first and the
\* last month end; the checkboxes keep their ticks whether or not the pass
\* reaches them.
Page2 ==
    LET dd == carregar_dados(carregar_tickers_acoes(arquivo).ret, dados_brutos)
        parou == empty(dd)
        vm == calcular_variacao_mensal(dd).ret
        datas == IF parou THEN {0} ELSE index_min(vm)..index_max(vm)
    IN /\ pc = "idle"
       /\ \E selecionadas \in IF parou THEN {<<>>} ELSE Selecoes(Range(vm.columns)),
             inicial, final \in datas :
             \E alta, baixa, estavel \in IF parou THEN {FALSE} ELSE BOOLEAN :
                /\ page' = 2
                /\ acoes_selecionadas' = selecionadas
                /\ data_inicial' = inicial
                /\ data_final' = final
                /\ filtros_variacao' = filtros_da_caixa(alta, baixa, estavel)
                /\ Assign(main_page_2(arquivo, dados_brutos, selecionadas, inicial, final,
                                      filtros_da_caixa(alta, baixa, estavel)))
                /\ UNCHANGED mundo

\* The framework runs the script again: main's variables start afresh.
Rerun ==
    /\ pc # "idle"
    /\ page' = 0
    /\ Assign([Passo EXCEPT !.pc = "idle"])
    /\ acoes_selecionadas' = <<>> /\ data_inicial' = 0 /\ data_final' = 0
    /\ filtros_variacao' = <<>>
    /\ UNCHANGED mundo

\* ------------------------------------------------------------------ Spec
\* The application: passes of either page over one world.  A cell of the
\* provider's answer is a gap or a quote; the level of the quote is left to
\* the specifications of the calculations below.
Cotacoes == {NaN, Num(1)}

Init ==
    /\ arquivo \in BOOLEAN
    /\ dados_brutos \in Respostas(DiasSeguidos, Cotacoes)
    /\ ~arquivo => dados_brutos.columns = <<>>
    /\ empresas = carregar_tickers_acoes(arquivo).ret
    /\ dados_completos = EmptyDataFrame
    /\ variacao_mensal = EmptyDataFrame
    /\ Idle

Next == Page1 \/ Page2 \/ Rerun

Spec == Init /\ [][Next]_vars

\* ------------------------------------------------------------------ SpecPage1
\* Passes of page 1 over every price table of NumDays days.
InitPage1 ==
    /\ arquivo \in BOOLEAN
    /\ dados_brutos \in Respostas(DiasSeguidos, Precos)
    /\ ~arquivo => dados_brutos.columns = <<>>
    /\ empresas = carregar_tickers_acoes(arquivo).ret
    /\ dados_completos = EmptyDataFrame
    /\ variacao_mensal = EmptyDataFrame
    /\ Idle

NextPage1 == Page1 \/ Rerun

SpecPage1 == InitPage1 /\ [][NextPage1]_vars

\* ------------------------------------------------------------------ SpecFetch
\* carregar_dados on every ticker list of up to MaxTickers symbols, repeated
\* ones included, and every subset of the symbols returned by the provider.
Simbolos == {"PETR4.SA", "VALE3.SA", "ITUB4.SA"}

Listas == UNION {[1..k -> Simbolos] : k \in 0..MaxTickers}

RespostasFetch ==
    UNION {{DataFrame(IF R = {} THEN <<>> ELSE <<0>>, "datetime64[ns]",
                      Enumerar(R), dat) : dat \in [R -> [{1} -> Cotacoes]]} :
           R \in SUBSET Simbolos}

CarregarDados ==
    /\ pc = "idle"
    /\ page' = 0
    /\ Assign([Passo EXCEPT !.called = {"carregar_dados"},
                            !.dados_completos = carregar_dados(empresas, dados_brutos)])
    /\ UNCHANGED <<mundo, entradas>>

InitFetch ==
    /\ arquivo = TRUE
    /\ empresas \in Listas
    /\ dados_brutos \in RespostasFetch
    /\ dados_completos = EmptyDataFrame
    /\ variacao_mensal = EmptyDataFrame
    /\ Idle

NextFetch == CarregarDados

SpecFetch == InitFetch /\ [][NextFetch]_vars
\* ------------------------------------------------------------------ SpecMensal
\* calcular_variacao_mensal on every price table of NumDays trading days
\* spread over a calendar of NumMonths months.
Calendario == 0..(NumMonths * DaysPerMonth - 1)

Pregoes == {Ascending(D) : D \in {E \in SUBSET Calendario : Cardinality(E) = NumDays}}

VariacaoMensal ==
    LET r == calcular_variacao_mensal(dados_completos)
    IN /\ pc = "idle"
       /\ page' = 2
       /\ Assign([Passo EXCEPT !.called = {"calcular_variacao_mensal"},
                               !.dados_completos = r.dados,
                               !.variacao_mensal = r.ret])
       /\ UNCHANGED <<mundo, entradas>>

InitMensal ==
    /\ arquivo = TRUE
    /\ empresas = Tickers
    /\ \E idx \in Pregoes : dados_brutos \in Respostas(idx, Precos)
    /\ dados_brutos.columns # <<>>
    /\ dados_completos = carregar_dados(empresas, dados_brutos)
    /\ variacao_mensal = EmptyDataFrame
    /\ Idle

NextMensal == VariacaoMensal

SpecMensal == InitMensal /\ [][NextMensal]_vars

\* ------------------------------------------------------------------ SpecFiltros
\* configurar_filtros and the end of page_2.main() on every monthly variation
\* table calcular_variacao_mensal gives for NumMonths months of prices, one
\* trading day a month.  The prices behind the table are not kept.
DiasMensais == [k \in 1..NumMonths |-> (k - 1) * DaysPerMonth]

Variacoes ==
    {calcular_variacao_mensal(carregar_dados(Tickers, b)).ret :
        b \in {r \in Respostas(DiasMensais, Precos) : r.columns # <<>>}}

Filtros ==
    LET datas == index_min(variacao_mensal)..index_max(variacao_mensal)
    IN /\ pc = "idle"
       /\ \E selecionadas \in Selecoes(Range(variacao_mensal.columns)),
             inicial, final \in datas, alta, baixa, estavel \in BOOLEAN :
             /\ page' = 2
             /\ acoes_selecionadas' = selecionadas
             /\ data_inicial' = inicial
             /\ data_final' = final
             /\ filtros_variacao' = filtros_da_caixa(alta, baixa, estavel)
             /\ Assign(filtrar_e_exibir(Passo, variacao_mensal, selecionadas, inicial, final,
                                        filtros_da_caixa(alta, baixa, estavel)))
             /\ UNCHANGED mundo

InitFiltros ==
    /\ arquivo = TRUE
    /\ empresas = Tickers
    /\ dados_brutos = EmptyDataFrame
    /\ dados_completos = EmptyDataFrame
    /\ variacao_mensal \in Variacoes
    /\ Idle

NextFiltros == Filtros

SpecFiltros == InitFiltros /\ [][NextFiltros]_vars

\* ------------------------------------------------------------------ claims
\* The table the fetcher returns in this world.
Fetched == carregar_dados(empresas, dados_brutos)

\* The position of the first occurrence of t in the list q.
Primeiro(q, t) == CHOOSE i \in DOMAIN q : q[i] = t /\ \A j \in 1..(i - 1) : q[j] # t

\* C3: the columns of the table carregar_dados returns are exactly the input
\* symbols the provider returned, each once, in the order of the input list,
\* each with the provider's values; a symbol the provider did not return is
\* no column, and no column is outside the input list.
C3_ColunasDoFetch ==
    (pc = "done" /\ called = {"carregar_dados"}) =>
        LET cols == dados_completos.columns
        IN /\ Range(cols) = Range(empresas) \cap Range(dados_brutos.columns)
           /\ Cardinality(Range(cols)) = Len(cols)
           /\ \A i, j \in DOMAIN cols :
                 i < j => Primeiro(empresas, cols[i]) < Primeiro(empresas, cols[j])
           /\ \A c \in Range(cols) : dados_completos.data[c] = dados_brutos.data[c]

\* A list of three symbols, one of them not returned, two of them columns.
C3_Witness ==
    /\ pc = "done" /\ called = {"carregar_dados"}
    /\ Len(empresas) = 3
    /\ \E i \in DOMAIN empresas : empresas[i] \notin Range(dados_brutos.columns)
    /\ Len(dados_completos.columns) = 2

\* The steps downstream of the loader.
Downstream ==
    {"carregar_dados", "configurar_sidebar", "calcular_performance", "plotar_grafico",
     "calcular_variacao_mensal", "configurar_filtros", "exibir_dashboard"}

\* C2: in a pass of either page in which the loader returned the empty list,
\* no step downstream of the loader is executed and the pass ends without a
\* crash.
C2_LoaderVazioPara ==
    (pc # "idle" /\ Len(carregar_tickers_acoes(arquivo).ret) = 0) =>
        /\ pc = "done"
        /\ called \cap Downstream = {}

\* C8: no step changes the table it receives: configurar_sidebar and
\* calcular_variacao_mensal leave the fetcher's table as it was returned,
\* index included; calcular_performance leaves the table configurar_sidebar
\* returned; configurar_filtros leaves the monthly variation table.
C8_TabelaIntacta ==
    /\ "configurar_sidebar" \in called => dados_completos = Fetched
    /\ "calcular_performance" \in called =>
          dados_filtrados = configurar_sidebar(Fetched, lista_acoes, intervalo_data[1],
                                               intervalo_data[2]).ret
    /\ "calcular_variacao_mensal" \in called =>
          /\ dados_completos = Fetched
          /\ dados_completos.index = dados_brutos.index
          /\ dados_completos.index_dtype = dados_brutos.index_dtype
    /\ "configurar_filtros" \in called =>
          variacao_mensal = pct_change(resample_last(Fetched))

\* A pass of page 2 that ran every step on a table of two columns.
C8_Witness ==
    /\ page = 2 /\ pc = "done" /\ exibido
    /\ Len(dados_completos.columns) = 2
    /\ Len(dados_completos.index) = NumDays

\* C5: with the first date after the second, configurar_filtros reports the
\* validation error and returns the empty table, whatever the selection and
\* the ticked filters, and the pass ends without exibir_dashboard.
C5_DatasInvertidas ==
    (page = 2 /\ "configurar_filtros" \in called /\ data_inicial > data_final) =>
        /\ pc = "done"
        /\ ErroDatas \in mensagens
        /\ dados_finais_filtrados = EmptyDataFrame
        /\ ~exibido /\ "exibir_dashboard" \notin called

\* Inverted dates with a symbol selected and a filter ticked.
C5_Witness ==
    /\ page = 2 /\ "configurar_filtros" \in called /\ data_inicial > data_final
    /\ Len(acoes_selecionadas) = 1 /\ Len(filtros_variacao) = 2
\* The positions of the rows of the fetcher's table inside the slider's window.
NaJanela == {i \in DOMAIN Fetched.index :
                intervalo_data[1] <= Fetched.index[i] /\ Fetched.index[i] <= intervalo_data[2]}

\* The positions in the window at which symbol s has an observation.
Observado(s) == {i \in NaJanela : Fetched.data[s][i] # NaN}

Min(S) == CHOOSE i \in S : \A j \in S : i <= j
Max(S) == CHOOSE i \in S : \A j \in S : j <= i

\* The line the claim gives for symbol s: the outcome depends on the first
\* and the last observation only, wherever the missing values are.
LinhaCerta(l, s) ==
    /\ l.acao = s
    /\ IF Cardinality(Observado(s)) < 2 THEN l.status = "insufficient-data"
       ELSE LET first == Fetched.data[s][Min(Observado(s))].n
                last == Fetched.data[s][Max(Observado(s))].n
            IN IF first = 0 THEN l.status = "zero-baseline"
               ELSE /\ l.status = "computed"
                    /\ 2 * Abs(10000 * (last - first) - l.pct * first) <= first
                    /\ l.cor = (IF last > first THEN "green"
                                ELSE IF last < first THEN "red" ELSE "gray")

\* C1: with a non-empty selection the pass does not abort and the text has
\* one line per chosen symbol, in the order of the list; a symbol with fewer
\* than two observations is insufficient-data, else one whose first
\* observation is zero is zero-baseline, else the line holds last/first - 1
\* (to the two decimals of the percentage) tagged by last against first;
\* missing values, wherever they are, change nothing.
C1_UmaLinhaPorAcao ==
    (page = 1 /\ Len(lista_acoes) > 0) =>
        /\ pc = "done"
        /\ "calcular_performance" \in called
        /\ Len(texto_performance) = Len(lista_acoes)
        /\ \A i \in DOMAIN lista_acoes : LinhaCerta(texto_performance[i], lista_acoes[i])

\* Two symbols: the first computed negative across a gap inside its series,
\* the second with a single observation.
C1_Witness ==
    /\ page = 1 /\ Len(lista_acoes) = 2 /\ Len(texto_performance) = 2
    /\ texto_performance[1].status = "computed" /\ texto_performance[1].cor = "red"
    /\ \E i \in DOMAIN dados_filtrados.index :
          /\ 1 < i /\ i < Len(dados_filtrados.index)
          /\ dados_filtrados.data[lista_acoes[1]][i] = NaN
    /\ texto_performance[2].status = "insufficient-data"
    /\ Cardinality(Observado(lista_acoes[2])) = 1

\* C4: with exactly one symbol s chosen, configurar_sidebar returns one
\* column, labelled "Close", with the values of column s in the window, and
\* reports s; calcular_performance gives one line, keyed by s, the line of
\* column s of the table that was not relabelled.  With two or more symbols
\* chosen no column is relabelled and no single symbol is reported.
C4_RenomeiaEDesfaz ==
    /\ (page = 1 /\ Len(lista_acoes) = 1) =>
          LET s == lista_acoes[1]
              original == loc(Fetched, intervalo_data[1], intervalo_data[2])
          IN /\ pc = "done"
             /\ acao_unica = s
             /\ dados_filtrados.columns = <<"Close">>
             /\ dados_filtrados.index = original.index
             /\ dados_filtrados.data["Close"] = original.data[s]
             /\ Len(texto_performance) = 1
             /\ texto_performance[1].acao = s
             /\ texto_performance[1] = linha_performance(original, s)
    /\ (page = 1 /\ Len(lista_acoes) >= 2) =>
          /\ pc = "done"
          /\ acao_unica = "None"
          /\ dados_filtrados.columns = lista_acoes
          /\ "Close" \notin Range(dados_filtrados.columns)

\* One symbol chosen out of two, with a computed line.
C4_Witness ==
    /\ page = 1 /\ Len(lista_acoes) = 1 /\ Len(Fetched.columns) = 2
    /\ lista_acoes[1] = Fetched.columns[2]
    /\ Len(texto_performance) = 1 /\ texto_performance[1].status = "computed"

FimDoMes(c, m) ==
    LET obs == {i \in DOMAIN Fetched.index :
                   Month(Fetched.index[i]) = m /\ Fetched.data[c][i] # NaN}
    IN IF obs = {} THEN NaN ELSE Fetched.data[c][Max(obs)]

\* The cell is cur/prev - 1 in float arithmetic: the exact quotient when prev
\* is not zero, +inf for a positive value over zero, NaN for zero over zero.
CelulaCerta(v, cur, prev) ==
    IF cur = NaN \/ prev = NaN THEN v = NaN
    ELSE IF prev.n # 0 THEN v.d > 0 /\ v.n * prev.n = (cur.n - prev.n) * v.d
    ELSE v = (IF cur.n = 0 THEN NaN ELSE PosInf)

\* C7: calcular_variacao_mensal returns one row per calendar month from the
\* month of the first day to the month of the last; the first row is missing
\* in every column; every later cell is this month-end value over the month-end
\* value of the month just before, minus one, and is missing when either is
\* missing; a column with no observation gives a column of missing values and
\* the call returns.
C7_VariacaoMensal ==
    (pc = "done" /\ called = {"calcular_variacao_mensal"}) =>
        LET m0 == Month(index_min(Fetched))
            m1 == Month(index_max(Fetched))
            v == variacao_mensal
        IN /\ v.columns = Fetched.columns
           /\ Len(v.index) = m1 - m0 + 1
           /\ \A k \in DOMAIN v.index : v.index[k] = MonthEnd(m0 + k - 1)
           /\ \A c \in Range(v.columns) :
                 /\ Len(v.data[c]) = Len(v.index)
                 /\ v.data[c][1] = NaN
                 /\ \A k \in 2..Len(v.index) :
                       CelulaCerta(v.data[c][k], FimDoMes(c, m0 + k - 1), FimDoMes(c, m0 + k - 2))
                 /\ (\A i \in DOMAIN Fetched.index : Fetched.data[c][i] = NaN) =>
                       \A k \in DOMAIN v.index : v.data[c][k] = NaN

\* Three months; the first column falls and then rises, the second has no
\* observation at all.
C7_Witness ==
    /\ pc = "done" /\ called = {"calcular_variacao_mensal"}
    /\ Len(variacao_mensal.index) = 3 /\ Len(variacao_mensal.columns) = 2
    /\ lt0(variacao_mensal.data[variacao_mensal.columns[1]][2])
    /\ gt0(variacao_mensal.data[variacao_mensal.columns[1]][3])
    /\ \A i \in DOMAIN Fetched.index : Fetched.data[Fetched.columns[2]][i] = NaN

\* The columns configurar_filtros keeps, and the positions of the rows of the
\* monthly table inside the two dates.
Acoes == IF Len(acoes_selecionadas) = 0 THEN variacao_mensal.columns ELSE acoes_selecionadas
NoPeriodo == {i \in DOMAIN variacao_mensal.index :
                 data_inicial <= variacao_mensal.index[i] /\ variacao_mensal.index[i] <= data_final}

\* The value satisfies one of the ticked predicates.
Satisfaz(v) ==
    \/ "Alta" \in Range(filtros_variacao) /\ v # NaN /\ v.n > 0
    \/ "Baixa" \in Range(filtros_variacao) /\ v # NaN /\ v.n < 0
    \/ "Estavel" \in Range(filtros_variacao) /\ v # NaN /\ v.n = 0

\* C6: of the table filtered by symbol and date, with a filter ticked a cell
\* keeps its value if and only if the value satisfies a ticked predicate and
\* is missing otherwise (its row may be gone altogether); with no filter
\* ticked every cell keeps its value.  No other row or column is returned.
C6_MascaraDeVariacao ==
    ("configurar_filtros" \in called /\ data_inicial <= data_final) =>
        LET out == dados_finais_filtrados
            linha(i) == {k \in DOMAIN out.index : out.index[k] = variacao_mensal.index[i]}
        IN /\ out.columns = Acoes
           /\ \A k \in DOMAIN out.index :
                 \E i \in NoPeriodo : out.index[k] = variacao_mensal.index[i]
           /\ \A i \in NoPeriodo : \A c \in Range(Acoes) :
                 LET v == variacao_mensal.data[c][i]
                 IN IF v # NaN /\ (Len(filtros_variacao) = 0 \/ Satisfaz(v))
                    THEN \E k \in linha(i) : out.data[c][k] = v
                    ELSE \A k \in linha(i) : out.data[c][k] = NaN

\* Two filters ticked over two columns: a cell kept, a cell masked in a row
\* that stays, and a row that goes.
C6_Witness ==
    /\ "configurar_filtros" \in called /\ data_inicial <= data_final
    /\ filtros_variacao = <<"Alta", "Estavel">>
    /\ Len(dados_finais_filtrados.columns) = 2
    /\ Len(dados_finais_filtrados.index) = 1
    /\ Cardinality(NoPeriodo) = 3
    /\ \E c \in Range(Acoes) : dados_finais_filtrados.data[c][1] = NaN
    /\ \E c \in Range(Acoes) : \E i \in NoPeriodo :
          lt0(variacao_mensal.data[c][i])
          /\ variacao_mensal.index[i] = dados_finais_filtrados.index[1]

\* C10: no row of a table configurar_filtros returns is missing in all of its
\* columns, filter ticked or not; the first month of the variation table is
\* never in it.
C10_SemLinhaVazia ==
    "configurar_filtros" \in called =>
        LET out == dados_finais_filtrados
        IN \A k \in DOMAIN out.index :
              /\ \E c \in Range(out.columns) : out.data[c][k] # NaN
              /\ out.index[k] # variacao_mensal.index[1]

\* No filter ticked, the period from the first month on: the first month and
\* another all-missing month are gone, one month is returned.
C10_Witness ==
    /\ "configurar_filtros" \in called
    /\ Len(filtros_variacao) = 0
    /\ data_inicial = index_min(variacao_mensal) /\ data_final = index_max(variacao_mensal)
    /\ Len(variacao_mensal.columns) = 2
    /\ Len(dados_finais_filtrados.index) = 1
    /\ exibido
====
